---- MODULE Spec2Model ----
(***************************************************************************)
(* PyNote: the palettes and the Preferences Store (src/pynote/themes.py),  *)
(* and the Application Shell (src/pynote/main.py): its file lifecycle, its *)
(* status bar, Find and spell check.                                       *)
(*                                                                         *)
(* Python values are modelled as tagged records (JSON values), Python      *)
(* exceptions as a "raised" field of an operation's result, and one event  *)
(* handler of the shell as one action.                                     *)
(***************************************************************************)
EXTENDS Integers, Sequences, FiniteSets, TLC

VARIABLES
    config,      \* the file ~/.pynote_config.json
    disk,        \* the document files: path -> content, or NoFile
    phase,       \* "start" (before PyNoteApp()), "running", "crashed"
    buf,         \* the text widget's content, without its final newline
    modified,    \* the text widget's modified flag (edit_modified)
    filepath,    \* self.filepath: a path, or NoPath for None
    title,       \* the window title
    prefs,       \* theme_name, tab_width, spell_check_enabled, spell_checker
    recent_menu, \* the entries of the Recent Files submenu
    ev,          \* what the last operation did: its name, events and result
    calls,       \* the paths of the add_recent_file calls that took effect (SpecRecent)
    inst,        \* the application instances inside a save of a preference (SpecRace)
    hist,        \* the config file the instances started on, and their finished saves
    tags,        \* the text ranges tagged 'misspelled' and 'found'
    misspelled,  \* self.misspelled
    status,      \* the status bar: the word and character counts it shows
    heap         \* the palette objects: LIGHT_THEME, DARK_THEME, then those returned

vars == <<config, disk, phase, buf, modified, filepath, title, prefs,
          recent_menu, ev, calls, inst, hist, tags, misspelled, status, heap>>

(***************************************************************************)
(* Bounds                                                                  *)
(***************************************************************************)
\* document paths are 1..NumPaths
NumPaths == 1
\* longest text typed into the buffer or held by a file
MaxLen == 1
\* number of add_recent_file calls that took effect in SpecRecent
MaxCalls == 6
\* number of saves each instance makes in SpecRace
MaxSaves == 1
\* longest of the short texts entered in SpecEdit
EditLen == 2
\* number of get_theme calls in SpecThemes
MaxThemes == 2

(***************************************************************************)
(* JSON values as json.load returns them                                   *)
(***************************************************************************)
Missing == [t |-> "missing", s |-> "", n |-> 0, l |-> <<>>]
JStr(x) == [t |-> "str", s |-> x, n |-> 0, l |-> <<>>]
JNum(k) == [t |-> "num", s |-> "", n |-> k, l |-> <<>>]
JBool(b) == [t |-> "bool", s |-> "", n |-> IF b THEN 1 ELSE 0, l |-> <<>>]
JList(q) == [t |-> "list", s |-> "", n |-> 0, l |-> q]

Keys == {"theme", "tab_width", "spell_check_enabled", "recent_files", "extra"}

\* the dict {}
EmptyObj == [k \in Keys |-> Missing]

\* the config file: kind is "absent", "unreadable", "invalid" (not JSON),
\* "nonobject" (JSON whose top-level value is no object) or "object"
Cfg(kind, f) == [kind |-> kind, f |-> f]

\* dict.get(key, default)
Get(f, key, default) == IF f[key].t = "missing" THEN default ELSE f[key]

\* a Python result: a returned value, or an exception leaving the function
Return(v) == [raised |-> FALSE, val |-> v]
Raise == [raised |-> TRUE, val |-> Missing]

\* str.lower() on the theme names that occur
Lower(x) ==
    CASE x = "DARK" -> "dark"
      [] x = "Light" -> "light"
      [] OTHER -> x

\* q[:k]
Take(q, k) == SubSeq(q, 1, IF Len(q) < k THEN Len(q) ELSE k)

\* x in q
Contains(q, x) == \E i \in 1..Len(q) : q[i] = x

\* list.remove(x): drops the first occurrence of x
Remove(q, x) ==
    LET i == CHOOSE j \in 1..Len(q) :
                 q[j] = x /\ \A m \in 1..(j - 1) : q[m] # x
    IN SubSeq(q, 1, i - 1) \o SubSeq(q, i + 1, Len(q))

(***************************************************************************)
(* themes.py: the Preferences Store                                        *)
(***************************************************************************)
LIGHT_THEME ==
    [bg |-> "#FFFFFF", fg |-> "#000000", select_bg |-> "#316AC5",
     select_fg |-> "#FFFFFF", insert_bg |-> "#000000", gutter_bg |-> "#F0F0F0",
     gutter_fg |-> "#666666", status_bg |-> "#E0E0E0", status_fg |-> "#000000"]

DARK_THEME ==
    [bg |-> "#1E1E1E", fg |-> "#D4D4D4", select_bg |-> "#264F78",
     select_fg |-> "#FFFFFF", insert_bg |-> "#FFFFFF", gutter_bg |-> "#252526",
     gutter_fg |-> "#858585", status_bg |-> "#007ACC", status_fg |-> "#FFFFFF"]

\* where the heap holds the two module-level palettes
LightRef == 1
DarkRef == 2

\* mutant: the module-level palette itself is returned
get_theme_shared(h, name) ==
    IF Lower(name) = "dark"
    THEN [heap |-> h, ref |-> DarkRef]
    ELSE [heap |-> h, ref |-> LightRef]

\* get_theme(name) on the heap h: dict.copy() makes a new object, and the
\* reference to it is returned
get_theme(h, name) ==
    IF Lower(name) = "dark"
    THEN [heap |-> Append(h, h[DarkRef]), ref |-> Len(h) + 1]
    ELSE [heap |-> Append(h, h[LightRef]), ref |-> Len(h) + 1]

MAX_RECENT == 5
DEFAULT_TAB == 4
TabWidths == {2, 4, 8}

\* what _load_config returns: a dict, or a JSON value that is no dict
_load_config(cfg) ==
    CASE cfg.kind = "object" -> [isdict |-> TRUE, f |-> cfg.f]
      [] cfg.kind = "nonobject" -> [isdict |-> FALSE, f |-> EmptyObj]
      [] OTHER -> [isdict |-> TRUE, f |-> EmptyObj]

\* the file after _save_config(f): w is what open(_CONFIG_PATH, 'w') does,
\* "ok" or "denied" (it raises, and the exception is swallowed)
WriteOutcomes == {"ok", "denied"}

_save_config(cfg, f, w) == IF w = "ok" THEN Cfg("object", f) ELSE cfg

load_theme_pref(cfg) ==
    IF cfg.kind = "object"
    THEN LET name == Get(cfg.f, "theme", JStr("light"))
         IN IF name.t = "str" /\ Lower(name.s) \in {"light", "dark"}
            THEN Return(JStr(Lower(name.s)))
            ELSE Return(JStr("light"))
    ELSE Return(JStr("light"))

save_theme_pref(cfg, name, w) ==
    LET data == _load_config(cfg)
    IN IF data.isdict
       THEN _save_config(cfg, [data.f EXCEPT !["theme"] = name], w)
       ELSE cfg

load_recent_files(cfg) ==
    LET data == _load_config(cfg)
    IN IF data.isdict
       THEN Return(Get(data.f, "recent_files", JList(<<>>)))
       ELSE Raise

save_recent_files(cfg, files, w) ==
    LET data == _load_config(cfg)
    IN IF data.isdict /\ files.t = "list"
       THEN _save_config(cfg,
                [data.f EXCEPT !["recent_files"] = JList(Take(files.l, MAX_RECENT))], w)
       ELSE cfg

\* mutant: the earlier occurrence of the path is not removed
add_recent_file_keeps_old(cfg, path, w) ==
    LET r == load_recent_files(cfg)
    IN IF ~r.raised /\ r.val.t = "list"
       THEN save_recent_files(cfg, JList(Take(<<path>> \o r.val.l, MAX_RECENT)), w)
       ELSE cfg

add_recent_file(cfg, path, w) ==
    LET r == load_recent_files(cfg)
    IN IF ~r.raised /\ r.val.t = "list"
       THEN LET files == r.val.l
                kept == IF Contains(files, path) THEN Remove(files, path) ELSE files
            IN save_recent_files(cfg, JList(Take(<<path>> \o kept, MAX_RECENT)), w)
       ELSE cfg

load_tab_width(cfg) ==
    LET data == _load_config(cfg)
    IN IF data.isdict
       THEN LET width == Get(data.f, "tab_width", JNum(DEFAULT_TAB))
            IN IF width.t = "num" /\ width.n \in TabWidths
               THEN Return(width)
               ELSE Return(JNum(DEFAULT_TAB))
       ELSE Raise

\* mutant: the record written holds the saved field alone
save_tab_width_alone(cfg, width, w) ==
    IF ~(width.t = "num" /\ width.n \in TabWidths)
    THEN cfg
    ELSE IF _load_config(cfg).isdict
         THEN _save_config(cfg, [EmptyObj EXCEPT !["tab_width"] = width], w)
         ELSE cfg

save_tab_width(cfg, width, w) ==
    IF ~(width.t = "num" /\ width.n \in TabWidths)
    THEN cfg
    ELSE LET data == _load_config(cfg)
         IN IF data.isdict
            THEN _save_config(cfg, [data.f EXCEPT !["tab_width"] = width], w)
            ELSE cfg

\* main.py calls these two; themes.py does not hold them
load_spell_check_pref(cfg) ==
    IF cfg.kind = "object"
    THEN LET on == Get(cfg.f, "spell_check_enabled", JBool(FALSE))
         IN IF on.t = "bool" THEN Return(on) ELSE Return(JBool(FALSE))
    ELSE Return(JBool(FALSE))

save_spell_check_pref(cfg, enabled, w) ==
    LET data == _load_config(cfg)
    IN IF data.isdict
       THEN _save_config(cfg, [data.f EXCEPT !["spell_check_enabled"] = enabled], w)
       ELSE cfg

(***************************************************************************)
(* The state before PyNoteApp() is constructed                             *)
(***************************************************************************)
NoPath == 0
NoFile == <<"nofile">>
APP_TITLE == "PyNote"
Paths == 1..NumPaths

\* the window title: APP_TITLE, or f"{APP_TITLE} - {path}"
Title(path) == [app |-> APP_TITLE, sep |-> IF path = NoPath THEN "" ELSE " - ", path |-> path]

NoPrefs == [theme_name |-> "", tab_width |-> 0, spell_check_enabled |-> FALSE,
            spell_checker |-> FALSE]

\* an entry of a log: a prompt, a dialog, a file access or a notice
E(k, a, p) == [k |-> k, a |-> a, p |-> p]

\* what an operation did: its name, whether it raised, the value it returned
\* (for a save: the value it was given) and the log of its steps
Ev(op, raised, val, log) == [op |-> op, raised |-> raised, val |-> val, log |-> log]

\* no text is tagged; the status bar shows 'Ln 1, Col 0' and no counts
NoTags == [misspelled |-> {}, found |-> {}]

NoStatus == [counted |-> FALSE, words |-> 0, chars |-> 0]

NotStarted ==
    /\ phase = "start"
    /\ buf = <<>>
    /\ modified = FALSE
    /\ filepath = NoPath
    /\ title = Title(NoPath)
    /\ prefs = NoPrefs
    /\ recent_menu = <<>>
    /\ ev = Ev("none", FALSE, Missing, <<>>)
    /\ calls = <<>>
    /\ tags = NoTags
    /\ misspelled = {}
    /\ status = NoStatus
    /\ heap = <<LIGHT_THEME, DARK_THEME>>

shell == <<disk, phase, buf, modified, filepath, title, prefs, recent_menu>>

race == <<inst, hist>>

view == <<tags, misspelled, status>>

\* no instance is inside a save
NoRace ==
    /\ inst = <<>>
    /\ hist = [start |-> Cfg("absent", EmptyObj), done |-> <<>>]

(***************************************************************************)
(* SpecPrefs: the public operations of the Preferences Store, called on    *)
(* every kind of config file                                               *)
(***************************************************************************)
BadKinds == {"absent", "unreadable", "invalid", "nonobject"}

ThemeVals == {Missing, JStr("DARK"), JStr("blue"), JNum(1)}
TabVals == {Missing, JNum(8), JNum(5), JStr("4")}
SpellVals == {Missing, JBool(TRUE), JNum(1)}
RecentVals == {Missing, JList(<<1>>), JNum(7)}
ExtraVals == {Missing, JNum(1)}

ObjectConfigs ==
    { Cfg("object", [k \in Keys |->
          CASE k = "theme" -> th
            [] k = "tab_width" -> tw
            [] k = "spell_check_enabled" -> sp
            [] k = "recent_files" -> rf
            [] OTHER -> ex]) :
      th \in ThemeVals, tw \in TabVals, sp \in SpellVals, rf \in RecentVals,
      ex \in ExtraVals }

ConfigFiles == { Cfg(k, EmptyObj) : k \in BadKinds } \cup ObjectConfigs

InitPrefs ==
    /\ NotStarted
    /\ NoRace
    /\ config \in ConfigFiles
    /\ disk = [p \in Paths |-> NoFile]

\* a load: the file is only read
Load(op, r) ==
    /\ ev' = Ev(op, r.raised, r.val, <<>>)
    /\ UNCHANGED <<config, shell, calls, race, view, heap>>

\* a save of the value arg, w being what the write to the file does
Save(op, arg, w, cfg) ==
    /\ config' = cfg
    /\ ev' = Ev(op, FALSE, arg, <<E("write", w, NoPath)>>)
    /\ UNCHANGED <<shell, calls, race, view, heap>>

LoadThemePref == Load("load_theme_pref", load_theme_pref(config))

LoadTabWidth == Load("load_tab_width", load_tab_width(config))

LoadRecentFiles == Load("load_recent_files", load_recent_files(config))

LoadSpellCheckPref == Load("load_spell_check_pref", load_spell_check_pref(config))

SaveThemePref ==
    \E name \in {"light", "dark"}, w \in WriteOutcomes :
        Save("save_theme_pref", JStr(name), w, save_theme_pref(config, JStr(name), w))

SaveTabWidth ==
    \E width \in {2, 4, 8, 5}, w \in WriteOutcomes :
        Save("save_tab_width", JNum(width), w, save_tab_width(config, JNum(width), w))

SaveSpellCheckPref ==
    \E on \in BOOLEAN, w \in WriteOutcomes :
        Save("save_spell_check_pref", JBool(on), w,
             save_spell_check_pref(config, JBool(on), w))

SaveRecentFiles ==
    \E files \in {<<>>, <<2>>, <<2, 1>>}, w \in WriteOutcomes :
        Save("save_recent_files", JList(files), w,
             save_recent_files(config, JList(files), w))

AddRecentFile ==
    \E path \in Paths, w \in WriteOutcomes :
        Save("add_recent_file", JNum(path), w, add_recent_file(config, path, w))

NextPrefs ==
    \/ LoadThemePref
    \/ LoadTabWidth
    \/ LoadRecentFiles
    \/ LoadSpellCheckPref
    \/ SaveThemePref
    \/ SaveTabWidth
    \/ SaveSpellCheckPref
    \/ SaveRecentFiles
    \/ AddRecentFile

SpecPrefs == InitPrefs /\ [][NextPrefs]_vars

(***************************************************************************)
(* SpecRecent: add_recent_file called again and again, starting from an    *)
(* empty recent-files list                                                 *)
(***************************************************************************)
RecentPaths == 1..(MAX_RECENT + 1)

EmptyRecentConfigs ==
    { Cfg("absent", EmptyObj), Cfg("invalid", EmptyObj), Cfg("object", EmptyObj),
      Cfg("object", [EmptyObj EXCEPT !["recent_files"] = JList(<<>>),
                                     !["extra"] = JNum(1)]) }

InitRecent ==
    /\ NotStarted
    /\ NoRace
    /\ config \in EmptyRecentConfigs
    /\ disk = [p \in Paths |-> NoFile]

\* calls holds the paths of the calls that took effect: a call whose write
\* is refused stores nothing
AddRecent ==
    \E path \in RecentPaths, w \in WriteOutcomes :
        /\ Len(calls) < MaxCalls
        /\ config' = add_recent_file(config, path, w)
        /\ calls' = IF w = "ok" THEN Append(calls, path) ELSE calls
        /\ ev' = Ev("add_recent_file", FALSE, JStr(w), <<>>)
        /\ UNCHANGED <<shell, race, view, heap>>

NextRecent == AddRecent

SpecRecent == InitRecent /\ [][NextRecent]_vars

\* the stored recent-files list
StoredRecent == load_recent_files(config).val.l

(***************************************************************************)
(* SpecThemes: get_theme is called again and again, and the caller changes *)
(* the palettes it was given                                               *)
(***************************************************************************)
ThemeNames == {"dark", "DARK", "light", "anything-else", ""}

InitThemes ==
    /\ NotStarted
    /\ NoRace
    /\ config = Cfg("absent", EmptyObj)
    /\ disk = [p \in Paths |-> NoFile]

\* ev.val is the name given, ev.log holds the reference returned
GetTheme ==
    /\ Len(heap) < DarkRef + MaxThemes
    /\ \E name \in ThemeNames :
       \E r \in {get_theme(heap, name)} :
           /\ heap' = r.heap
           /\ ev' = Ev("get_theme", FALSE, JStr(name), <<E("return", "", r.ref)>>)
    /\ UNCHANGED <<config, shell, calls, race, view>>

\* the caller assigns to a key of the palette it was given last
MutatePalette ==
    /\ ev.op \in {"get_theme", "mutate"}
    /\ \E key \in {"bg", "status_fg"} :
        /\ heap' = [heap EXCEPT ![ev.log[1].p][key] = "#123456"]
        /\ ev' = [ev EXCEPT !.op = "mutate"]
    /\ UNCHANGED <<config, shell, calls, race, view>>

NextThemes ==
    \/ GetTheme
    \/ MutatePalette

SpecThemes == InitThemes /\ [][NextThemes]_vars

(***************************************************************************)
(* SpecRace: two instances of the application save preferences on the      *)
(* shared config file.  A save is three steps: _load_config reads the       *)
(* record, open(_CONFIG_PATH, 'w') empties the file, json.dump writes the   *)
(* record the instance holds.                                               *)
(***************************************************************************)
Instances == {1, 2}

\* the saves the instances make: _on_toggle_theme and _set_tab_width
RaceSaves ==
    { [field |-> "theme", value |-> JStr("dark")],
      [field |-> "tab_width", value |-> JNum(2)],
      [field |-> "tab_width", value |-> JNum(8)] }

\* an instance outside a save, after n saves
Idle(n) == [pc |-> "idle", field |-> "", value |-> Missing, data |-> EmptyObj, n |-> n]

RaceConfigs ==
    { Cfg("absent", EmptyObj),
      Cfg("object", [EmptyObj EXCEPT !["theme"] = JStr("light"),
                                     !["tab_width"] = JNum(4),
                                     !["extra"] = JNum(1)]) }

InitRace ==
    /\ NotStarted
    /\ config \in RaceConfigs
    /\ disk = [p \in Paths |-> NoFile]
    /\ inst = [i \in Instances |-> Idle(0)]
    /\ hist = [start |-> config, done |-> <<>>]

\* data = _load_config(); data[field] = value
RaceLoad(i) ==
    /\ inst[i].pc = "idle"
    /\ inst[i].n < MaxSaves
    /\ \E sv \in RaceSaves :
        LET data == _load_config(config)
        IN /\ inst' = [inst EXCEPT ![i] =
                          IF data.isdict
                          THEN [pc |-> "loaded", field |-> sv.field, value |-> sv.value,
                                data |-> [data.f EXCEPT ![sv.field] = sv.value],
                                n |-> inst[i].n]
                          ELSE Idle(inst[i].n + 1)]
           /\ ev' = Ev("_load_config", FALSE, JNum(i), <<>>)
    /\ UNCHANGED <<config, shell, calls, hist, view, heap>>

\* open(_CONFIG_PATH, 'w'): the file is empty until the record is written
RaceOpen(i) ==
    /\ inst[i].pc = "loaded"
    /\ config' = Cfg("invalid", EmptyObj)
    /\ inst' = [inst EXCEPT ![i].pc = "opened"]
    /\ ev' = Ev("open", FALSE, JNum(i), <<>>)
    /\ UNCHANGED <<shell, calls, hist, view, heap>>

\* json.dump(data, f) and the end of the with block
RaceDump(i) ==
    /\ inst[i].pc = "opened"
    /\ config' = _save_config(config, inst[i].data, "ok")
    /\ inst' = [inst EXCEPT ![i] = Idle(inst[i].n + 1)]
    /\ hist' = [hist EXCEPT !.done =
                    Append(@, [field |-> inst[i].field, value |-> inst[i].value])]
    /\ ev' = Ev("json.dump", FALSE, JNum(i), <<>>)
    /\ UNCHANGED <<shell, calls, view, heap>>

NextRace ==
    \/ \E i \in Instances : RaceLoad(i)
    \/ \E i \in Instances : RaceOpen(i)
    \/ \E i \in Instances : RaceDump(i)

SpecRace == InitRace /\ [][NextRace]_vars

(***************************************************************************)
(* Python strings and Tk text searches.  A text is a sequence of           *)
(* characters; an index is a position in it, counted from 1.               *)
(***************************************************************************)
\* str.lower() and Tk's -nocase on one character
LowerChar(c) ==
    CASE c = "A" -> "a"
      [] c = "T" -> "t"
      [] OTHER -> c

LowerText(x) == [i \in 1..Len(x) |-> LowerChar(x[i])]

IsSpace(c) == c \in {" ", "\n", "\t"}

\* bool(x.strip())
Strip(x) == \E i \in 1..Len(x) : ~IsSpace(x[i])

\* x.strip()
StripText(x) ==
    IF Strip(x)
    THEN LET first == CHOOSE i \in 1..Len(x) :
                          ~IsSpace(x[i]) /\ \A j \in 1..(i - 1) : IsSpace(x[j])
             last == CHOOSE i \in 1..Len(x) :
                         ~IsSpace(x[i]) /\ \A j \in (i + 1)..Len(x) : IsSpace(x[j])
         IN SubSeq(x, first, last)
    ELSE <<>>

\* x.split(): word is the word being read, words the words read so far
RECURSIVE SplitFrom(_, _, _, _)
SplitFrom(x, i, word, words) ==
    IF i > Len(x)
    THEN IF word = <<>> THEN words ELSE Append(words, word)
    ELSE IF IsSpace(x[i])
         THEN SplitFrom(x, i + 1, <<>>, IF word = <<>> THEN words ELSE Append(words, word))
         ELSE SplitFrom(x, i + 1, Append(word, x[i]), words)

Split(x) == SplitFrom(x, 1, <<>>, <<>>)

\* the pattern stands in the text at index i, letter case set aside
MatchAt(x, pat, i) ==
    /\ i + Len(pat) - 1 <= Len(x)
    /\ \A k \in 1..Len(pat) : LowerChar(x[i + k - 1]) = LowerChar(pat[k])

\* text.search(pat, pos, nocase=True, stopindex=tk.END): the first index at or
\* after pos where the pattern stands, 0 for ''
Search(x, pat, pos) ==
    IF \E i \in pos..Len(x) : MatchAt(x, pat, i)
    THEN CHOOSE i \in pos..Len(x) :
             MatchAt(x, pat, i) /\ \A j \in pos..(i - 1) : ~MatchAt(x, pat, j)
    ELSE 0

\* the loop of _find_text and of _check_spelling: search, tag width
\* characters, go on from the end of the tagged range
RECURSIVE SearchLoop(_, _, _, _, _)
SearchLoop(x, pat, width, pos, found) ==
    LET p == Search(x, pat, pos)
    IN IF p = 0
       THEN found
       ELSE SearchLoop(x, pat, width, p + width, Append(found, p))

\* str.replace(old, new, 1)
StandsAt(x, old, i) ==
    /\ i + Len(old) - 1 <= Len(x)
    /\ \A k \in 1..Len(old) : x[i + k - 1] = old[k]

Replace1(x, old, new) ==
    IF \E i \in 1..Len(x) : StandsAt(x, old, i)
    THEN LET i == CHOOSE j \in 1..Len(x) :
                      StandsAt(x, old, j) /\ \A m \in 1..(j - 1) : ~StandsAt(x, old, m)
         IN SubSeq(x, 1, i - 1) \o new \o SubSeq(x, i + Len(old), Len(x))
    ELSE x

\* the elements of a sequence
Elems(q) == { q[i] : i \in 1..Len(q) }

\* the indices of width characters from index p on
Range(p, width) == p..(p + width - 1)

(***************************************************************************)
(* main.py: the Application Shell.  A handler is a function of the shell's *)
(* state s and of the answers `inp` the user and the file system give it;  *)
(* s.log lists what the handler did, in order.                             *)
(***************************************************************************)
Chars == {"a"}

Log(s, e) == [s EXCEPT !.log = Append(@, e)]

\* mutant: the text without the widget's final newline
TextGetBare(b) == b

\* self.text.get('1.0', tk.END): the widget's text ends with a newline of its own
TextGet(b) == b \o <<"\n">>

\* self.text.delete('1.0', tk.END): deleting text sets the modified flag, and
\* the tags go with the text that carried them
TextDelete(s) ==
    Log([s EXCEPT !.buf = <<>>, !.modified = s.modified \/ s.buf # <<>>,
                  !.tags = NoTags],
        E("text.delete", "", NoPath))

\* self.text.insert('1.0', data): inserting text sets the modified flag
TextInsert(s, data) ==
    [s EXCEPT !.buf = data \o s.buf, !.modified = s.modified \/ data # <<>>]

\* mutant: the modified flag is not cleared
EditModifiedKept(s) == s

\* self.text.edit_modified(False)
EditModifiedFalse(s) == [s EXCEPT !.modified = FALSE]

\* the result of _update_recent_menu: the submenu rebuilt, or an exception
_update_recent_menu(s) ==
    LET r == load_recent_files(s.config)
        files == r.val
    IN CASE r.raised -> [raised |-> TRUE, s |-> s]
         [] files.t = "list" -> [raised |-> FALSE, s |-> [s EXCEPT !.recent_menu = files.l]]
         [] files.t = "num" /\ files.n # 0 -> [raised |-> TRUE, s |-> s]
         [] OTHER -> [raised |-> FALSE, s |-> [s EXCEPT !.recent_menu = <<>>]]

\* mutant: the chosen path is adopted before the file is written
save_as_adopts_first(s, inp) ==
    LET path == inp.savepath
        s1 == Log(s, E("asksaveasfilename", "", path))
    IN IF path # NoPath
       THEN LET s2 == [s1 EXCEPT !.filepath = path, !.title = Title(path)]
            IN IF inp.w = "ok"
               THEN Log(Log(EditModifiedFalse([s2 EXCEPT !.disk[path] = TextGet(s1.buf)]),
                            E("write", "ok", path)),
                        E("showinfo", "saved_as", path))
               ELSE Log(Log(s2, E("write", "denied", path)),
                        E("showerror", "save_failed", path))
       ELSE s1

save_as(s, inp) ==
    LET path == inp.savepath
        s1 == Log(s, E("asksaveasfilename", "", path))
    IN IF path # NoPath
       THEN IF inp.w = "ok"
            THEN LET s2 == [s1 EXCEPT !.disk[path] = TextGet(s1.buf),
                                      !.filepath = path,
                                      !.title = Title(path)]
                 IN Log(Log(EditModifiedFalse(s2), E("write", "ok", path)),
                        E("showinfo", "saved_as", path))
            ELSE Log(Log(s1, E("write", "denied", path)),
                     E("showerror", "save_failed", path))
       ELSE s1

save_file(s, inp) ==
    IF s.filepath # NoPath
    THEN IF inp.w = "ok"
         THEN LET s1 == [s EXCEPT !.disk[s.filepath] = TextGet(s.buf)]
              IN Log(Log(EditModifiedFalse(s1), E("write", "ok", s.filepath)),
                     E("showinfo", "saved", s.filepath))
         ELSE Log(Log(s, E("write", "denied", s.filepath)),
                  E("showerror", "save_failed", s.filepath))
    ELSE save_as(s, inp)

\* mutant: a save that did not clear the modified flag stops the operation
_confirm_discard_needs_save(s, inp) ==
    IF s.modified
    THEN LET s1 == Log(s, E("askyesnocancel", inp.answer, NoPath))
         IN CASE inp.answer = "cancel" -> [proceed |-> FALSE, s |-> s1]
              [] inp.answer = "yes" ->
                    LET s2 == save_file(s1, inp)
                    IN [proceed |-> ~s2.modified, s |-> s2]
              [] OTHER -> [proceed |-> TRUE, s |-> s1]
    ELSE [proceed |-> TRUE, s |-> s]

\* mutant: Cancel is taken for Discard
_confirm_discard_ignores_cancel(s, inp) ==
    IF s.modified
    THEN LET s1 == Log(s, E("askyesnocancel", inp.answer, NoPath))
         IN IF inp.answer = "yes"
            THEN [proceed |-> TRUE, s |-> save_file(s1, inp)]
            ELSE [proceed |-> TRUE, s |-> s1]
    ELSE [proceed |-> TRUE, s |-> s]

\* [proceed, s]: what _confirm_discard returns and the state it leaves
_confirm_discard(s, inp) ==
    IF s.modified
    THEN LET s1 == Log(s, E("askyesnocancel", inp.answer, NoPath))
         IN CASE inp.answer = "cancel" -> [proceed |-> FALSE, s |-> s1]
              [] inp.answer = "yes" -> [proceed |-> TRUE, s |-> save_file(s1, inp)]
              [] OTHER -> [proceed |-> TRUE, s |-> s1]
    ELSE [proceed |-> TRUE, s |-> s]

\* mutant: the window title is not reset
new_file_keeps_title(s, inp) ==
    LET c == _confirm_discard(s, inp)
    IN IF c.proceed THEN [TextDelete(c.s) EXCEPT !.filepath = NoPath] ELSE c.s

new_file(s, inp) ==
    LET c == _confirm_discard(s, inp)
    IN IF c.proceed
       THEN [TextDelete(c.s) EXCEPT !.filepath = NoPath, !.title = Title(NoPath)]
       ELSE c.s

\* mutant: the buffer is cleared before the file is read
read_file_clears_first(s, path, inp) ==
    IF s.disk[path] # NoFile /\ inp.r = "ok"
    THEN LET data == s.disk[path]
             s1 == TextInsert(TextDelete(Log(s, E("read", "ok", path))), data)
             s2 == [s1 EXCEPT !.filepath = path,
                              !.title = Title(path),
                              !.config = add_recent_file(s1.config, path, inp.cw)]
             m == _update_recent_menu(s2)
         IN IF m.raised
            THEN Log(m.s, E("showerror", "open_failed", path))
            ELSE Log(m.s, E("opened", "ok", path))
    ELSE Log(Log(TextDelete(s), E("read", "failed", path)),
             E("showerror", "open_failed", path))

\* the try block of open_file and of _open_recent
read_file(s, path, inp) ==
    IF s.disk[path] # NoFile /\ inp.r = "ok"
    THEN LET data == s.disk[path]
             s1 == TextInsert(TextDelete(Log(s, E("read", "ok", path))), data)
             s2 == [s1 EXCEPT !.filepath = path,
                              !.title = Title(path),
                              !.config = add_recent_file(s1.config, path, inp.cw)]
             m == _update_recent_menu(s2)
         IN IF m.raised
            THEN Log(m.s, E("showerror", "open_failed", path))
            ELSE Log(m.s, E("opened", "ok", path))
    ELSE Log(Log(s, E("read", "failed", path)), E("showerror", "open_failed", path))

\* mutant: the file dialog comes up without _confirm_discard
open_file_unconfirmed(s, inp) ==
    LET path == inp.openpath
        s1 == Log(s, E("askopenfilename", "", path))
    IN IF path # NoPath THEN read_file(s1, path, inp) ELSE s1

open_file(s, inp) ==
    LET c == _confirm_discard(s, inp)
    IN IF ~c.proceed
       THEN c.s
       ELSE LET path == inp.openpath
                s1 == Log(c.s, E("askopenfilename", "", path))
            IN IF path # NoPath THEN read_file(s1, path, inp) ELSE s1

_open_recent(s, path, inp) ==
    LET c == _confirm_discard(s, inp)
    IN IF ~c.proceed
       THEN c.s
       ELSE IF c.s.disk[path] = NoFile
            THEN Log(Log(c.s, E("exists", "no", path)),
                     E("showerror", "not_found", path))
            ELSE read_file(Log(c.s, E("exists", "yes", path)), path, inp)

(***************************************************************************)
(* main.py: status bar, Find and spell check                               *)
(***************************************************************************)
\* the words the spell checker's dictionary holds
KnownWords ==
    { <<"t", "h", "e">>,
      <<"c", "a", "t">>,
      <<"s", "a", "t">>,
      <<"o", "n">>,
      <<"m", "a", "t">>,
      <<"o", "n", "e">>,
      <<"t", "w", "o">>,
      <<"t", "h", "r", "e", "e">>,
      <<"h", "e", "l", "l", "o">>,
      <<"w", "o", "r", "l", "d">>,
      <<"a">>,
      <<"a", "t">> }

\* SpellChecker.unknown(words): the words, in lower case, the dictionary lacks
Unknown(words) == { LowerText(w) : w \in Elems(words) } \ KnownWords

\* SpellChecker.candidates(word)
Candidates(word) ==
    IF word = <<"t", "e", "h">> THEN { <<"t", "h", "e">> } ELSE { <<"a", "t">>, <<"a">> }

\* r'\b' + word + r'\b' handed to Tk as a regular expression: in Tcl's
\* syntax \b is the backspace character BS, not a word boundary
WordPattern(word) == <<"BS">> \o word \o <<"BS">>

_check_spelling(s, enabled, checker) ==
    LET s1 == [s EXCEPT !.tags.misspelled = {}]
    IN IF ~enabled \/ ~checker
       THEN s1
       ELSE LET text == TextGet(s1.buf)
                unknown == Unknown(Split(text))
            IN [s1 EXCEPT
                  !.misspelled = unknown,
                  !.tags.misspelled =
                      UNION { UNION { Range(p, Len(w)) :
                                        p \in Elems(SearchLoop(text, WordPattern(w),
                                                               Len(w), 1, <<>>)) } :
                              w \in unknown }]

\* mutant: the widget's final newline is counted
_update_status_counts_newline(s, enabled, checker) ==
    LET text == TextGet(s.buf)
        words == IF Strip(text) THEN Len(Split(text)) ELSE 0
    IN _check_spelling([s EXCEPT !.status = [counted |-> TRUE, words |-> words,
                                             chars |-> Len(text)]],
                       enabled, checker)

_update_status(s, enabled, checker) ==
    LET text == TextGet(s.buf)
        chars == Len(text) - 1
        words == IF Strip(text) THEN Len(Split(text)) ELSE 0
    IN _check_spelling([s EXCEPT !.status = [counted |-> TRUE, words |-> words,
                                             chars |-> chars]],
                       enabled, checker)

\* mutant: the next search starts one character after the match
_find_text_overlapping(s, query) ==
    LET s1 == [s EXCEPT !.tags.found = {}]
        hits == SearchLoop(TextGet(s1.buf), query, 1, 1, <<>>)
    IN Log([s1 EXCEPT !.tags.found = UNION { Range(p, Len(query)) : p \in Elems(hits) }],
           E("showinfo", IF Len(hits) > 0 THEN "found" ELSE "no_matches", Len(hits)))

\* the showinfo entry carries the count of 'Found {count} match(es)'
_find_text(s, query) ==
    LET s1 == [s EXCEPT !.tags.found = {}]
    IN IF query = <<>>
       THEN s1
       ELSE LET hits == SearchLoop(TextGet(s1.buf), query, Len(query), 1, <<>>)
                count == Len(hits)
            IN Log([s1 EXCEPT !.tags.found =
                                  UNION { Range(p, Len(query)) : p \in Elems(hits) }],
                   E("showinfo", IF count > 0 THEN "found" ELSE "no_matches", count))

_replace_word(s, old_word, new_word, enabled, checker) ==
    LET text_content == TextGet(s.buf)
        new_content == Replace1(text_content, old_word, new_word)
    IN _check_spelling(TextInsert(TextDelete(s), new_content), enabled, checker)

\* the word _on_right_click takes for the clicked one: its two searches for
\* r'\b' look for a backspace, find none, and leave the whole text
ClickedWord(s) == StripText(TextGet(s.buf))

(***************************************************************************)
(* Spec: the shell's event handlers, one action each                       *)
(***************************************************************************)
Cur == [buf |-> buf, modified |-> modified, filepath |-> filepath, title |-> title,
        disk |-> disk, config |-> config, recent_menu |-> recent_menu, log |-> <<>>,
        tags |-> tags, misspelled |-> misspelled, status |-> status]

\* the handler op, called with arg, leaves the widgets and files in state s
Put(op, arg, s) ==
    /\ buf' = s.buf
    /\ modified' = s.modified
    /\ filepath' = s.filepath
    /\ title' = s.title
    /\ disk' = s.disk
    /\ config' = s.config
    /\ recent_menu' = s.recent_menu
    /\ tags' = s.tags
    /\ misspelled' = s.misspelled
    /\ status' = s.status
    /\ ev' = Ev(op, FALSE, arg, s.log)

Apply(op, after) ==
    \E s \in {after} :
    /\ Put(op, Missing, s)
    /\ UNCHANGED <<phase, prefs, calls, race, heap>>

Inp(answer, savepath, w, openpath, r, cw) ==
    [answer |-> answer, savepath |-> savepath, w |-> w, openpath |-> openpath,
     r |-> r, cw |-> cw]

\* the answers the user can give: the prompt is shown on a modified buffer only
\* (Save is answered while the text to write fits MaxLen)
Answers ==
    IF modified
    THEN {"no", "cancel"} \cup (IF Len(buf) < MaxLen THEN {"yes"} ELSE {})
    ELSE {"none"}

\* the Save As dialog is reached from Save on an untitled buffer
SavePaths(a) == IF a = "yes" /\ filepath = NoPath THEN {NoPath} \cup Paths ELSE {NoPath}

WritesFor(a, sp) ==
    IF a = "yes" /\ (filepath # NoPath \/ sp # NoPath) THEN WriteOutcomes ELSE {"ok"}

ReadsFor(path) == IF path # NoPath THEN {"ok", "failed"} ELSE {"ok"}

ConfigWritesFor(path, r) ==
    IF path # NoPath /\ r = "ok" THEN WriteOutcomes ELSE {"ok"}

EditorConfigs ==
    { Cfg("absent", EmptyObj), Cfg("nonobject", EmptyObj),
      Cfg("object", [EmptyObj EXCEPT !["recent_files"] = JList(<<1>>)]),
      Cfg("object", [EmptyObj EXCEPT !["recent_files"] = JNum(7)]) }

Init ==
    /\ NotStarted
    /\ NoRace
    /\ config \in EditorConfigs
    /\ disk \in [Paths -> {NoFile, <<"a">>}]

\* PyNoteApp.__init__: an exception leaving it ends the program
Construct ==
    /\ phase = "start"
    /\ \E checker \in BOOLEAN :
        LET theme == load_theme_pref(config)
            tab == load_tab_width(config)
            spell == load_spell_check_pref(config)
            m == _update_recent_menu(Cur)
        IN IF tab.raised \/ spell.raised \/ m.raised
           THEN /\ phase' = "crashed"
                /\ ev' = Ev("__init__", TRUE, Missing, <<>>)
                /\ UNCHANGED <<config, disk, buf, modified, filepath, title, prefs,
                               recent_menu, calls, race, view, heap>>
           ELSE /\ phase' = "running"
                /\ prefs' = [theme_name |-> theme.val.s,
                             tab_width |-> tab.val.n,
                             spell_check_enabled |-> (spell.val.n = 1),
                             spell_checker |-> checker]
                /\ buf' = <<>>
                /\ modified' = FALSE
                /\ filepath' = NoPath
                /\ title' = Title(NoPath)
                /\ recent_menu' = m.s.recent_menu
                /\ ev' = Ev("__init__", FALSE, Missing, <<>>)
                /\ UNCHANGED <<config, disk, calls, race, view, heap>>

\* the user types a character
TypeChar ==
    /\ phase = "running"
    /\ Len(buf) < MaxLen
    /\ \E c \in Chars :
        /\ buf' = Append(buf, c)
        /\ modified' = TRUE
        /\ ev' = Ev("edit", FALSE, Missing, <<>>)
        /\ UNCHANGED <<config, disk, phase, filepath, title, prefs, recent_menu, calls,
                       race, view, heap>>

\* the user deletes the last character
Backspace ==
    /\ phase = "running"
    /\ buf # <<>>
    /\ buf' = SubSeq(buf, 1, Len(buf) - 1)
    /\ modified' = TRUE
    /\ ev' = Ev("edit", FALSE, Missing, <<>>)
    /\ UNCHANGED <<config, disk, phase, filepath, title, prefs, recent_menu, calls,
                   race, view, heap>>

\* another program deletes a document
ExternalDelete ==
    /\ phase = "running"
    /\ \E p \in Paths :
        /\ disk[p] # NoFile
        /\ disk' = [disk EXCEPT ![p] = NoFile]
        /\ ev' = Ev("external_delete", FALSE, Missing, <<>>)
        /\ UNCHANGED <<config, phase, buf, modified, filepath, title, prefs,
                       recent_menu, calls, race, view, heap>>

New ==
    /\ phase = "running"
    /\ \E a \in Answers :
       \E sp \in SavePaths(a) :
       \E w \in WritesFor(a, sp) :
           Apply("new_file", new_file(Cur, Inp(a, sp, w, NoPath, "ok", "ok")))

Open ==
    /\ phase = "running"
    /\ \E a \in Answers :
       \E sp \in SavePaths(a) :
       \E w \in WritesFor(a, sp) :
       \E path \in (IF a = "cancel" THEN {NoPath} ELSE {NoPath} \cup Paths) :
       \E r \in ReadsFor(path) :
       \E cw \in ConfigWritesFor(path, r) :
           Apply("open_file", open_file(Cur, Inp(a, sp, w, path, r, cw)))

OpenRecent ==
    /\ phase = "running"
    /\ \E i \in 1..Len(recent_menu) :
       \E a \in Answers :
       \E sp \in SavePaths(a) :
       \E w \in WritesFor(a, sp) :
       \E r \in (IF a = "cancel" THEN {"ok"} ELSE {"ok", "failed"}) :
       \E cw \in ConfigWritesFor(recent_menu[i], r) :
           Apply("_open_recent",
                 _open_recent(Cur, recent_menu[i], Inp(a, sp, w, NoPath, r, cw)))

SaveFile ==
    /\ phase = "running"
    /\ Len(buf) < MaxLen
    /\ \E sp \in (IF filepath = NoPath THEN {NoPath} \cup Paths ELSE {NoPath}) :
       \E w \in (IF filepath # NoPath \/ sp # NoPath THEN WriteOutcomes ELSE {"ok"}) :
           Apply("save_file", save_file(Cur, Inp("none", sp, w, NoPath, "ok", "ok")))

SaveAs ==
    /\ phase = "running"
    /\ Len(buf) < MaxLen
    /\ \E sp \in {NoPath} \cup Paths :
       \E w \in (IF sp # NoPath THEN WriteOutcomes ELSE {"ok"}) :
           Apply("save_as", save_as(Cur, Inp("none", sp, w, NoPath, "ok", "ok")))

Next ==
    \/ Construct
    \/ TypeChar
    \/ Backspace
    \/ ExternalDelete
    \/ New
    \/ Open
    \/ OpenRecent
    \/ SaveFile
    \/ SaveAs

Spec == Init /\ [][Next]_vars

(***************************************************************************)
(* SpecEdit: a text is entered into the constructed editor, and the status *)
(* bar, Find and spell check work on it                                    *)
(***************************************************************************)
EditChars == {"a", "t", " "}

SampleTexts ==
    { <<"t", "h", "e", " ", "c", "a", "t", " ", "s", "a", "t", " ", "o", "n", " ", "t", "h", "e", " ", "m", "a", "t">>,
      <<"o", "n", "e", " ", "t", "w", "o", " ", "t", "h", "r", "e", "e">>,
      <<"h", "e", "l", "l", "o", " ", "w", "o", "r", "l", "d">>,
      <<"t", "e", "h">>,
      <<"A", "t", " ", "a", "T">>,
      <<"a", "a", "a">> }

EditTexts == UNION { [1..n -> EditChars] : n \in 1..EditLen } \cup SampleTexts

\* what the user enters in the Find dialog
Queries == { <<"a", "t">>, <<"A", "T">>, <<"a", "a">>, <<"z", "z", "z">>, <<"a">> }

EditConfigs ==
    { Cfg("absent", EmptyObj),
      Cfg("object", [EmptyObj EXCEPT !["spell_check_enabled"] = JBool(TRUE),
                                     !["extra"] = JNum(1)]) }

InitEdit ==
    /\ NotStarted
    /\ NoRace
    /\ config \in EditConfigs
    /\ disk = [p \in Paths |-> NoFile]

\* the user types or pastes a text into the empty editor
EnterText ==
    /\ phase = "running"
    /\ buf = <<>>
    /\ \E x \in EditTexts :
        /\ buf' = x
        /\ modified' = TRUE
        /\ ev' = Ev("edit", FALSE, Missing, <<>>)
        /\ UNCHANGED <<config, disk, phase, filepath, title, prefs, recent_menu, calls,
                       race, view, heap>>

\* <KeyRelease> and <ButtonRelease>
KeyRelease ==
    /\ phase = "running"
    /\ Apply("_update_status",
             _update_status(Cur, prefs.spell_check_enabled, prefs.spell_checker))

\* show_find_dialog with a query entered
Find ==
    /\ phase = "running"
    /\ \E query \in Queries :
       \E s \in {_find_text(Cur, query)} :
           /\ Put("_find_text", JList(query), s)
           /\ UNCHANGED <<phase, prefs, calls, race, heap>>

\* the Spell Check entry of the menu: the check button flips its variable
ToggleSpellCheck ==
    /\ phase = "running"
    /\ \E w \in WriteOutcomes :
       LET on == ~prefs.spell_check_enabled
           s0 == [Cur EXCEPT !.config = save_spell_check_pref(config, JBool(on), w)]
       IN \E s \in {_check_spelling(s0, on, prefs.spell_checker)} :
           /\ prefs' = [prefs EXCEPT !.spell_check_enabled = on]
           /\ Put("_on_toggle_spell_check", JBool(on), s)
           /\ UNCHANGED <<phase, calls, race, heap>>

\* a candidate chosen in the menu _on_right_click posts for a misspelled word
ReplaceWord ==
    /\ phase = "running"
    /\ prefs.spell_check_enabled
    /\ prefs.spell_checker
    /\ ClickedWord(Cur) # <<>>
    /\ ClickedWord(Cur) \in misspelled
    /\ \E new_word \in Candidates(ClickedWord(Cur)) :
       \E s \in {_replace_word(Cur, ClickedWord(Cur), new_word,
                                prefs.spell_check_enabled, prefs.spell_checker)} :
           /\ Put("_replace_word", JList(<<ClickedWord(Cur), new_word>>), s)
           /\ UNCHANGED <<phase, prefs, calls, race, heap>>

\* Save As of the entered text
SaveAsText ==
    /\ phase = "running"
    /\ \E sp \in {NoPath} \cup Paths :
       \E w \in (IF sp # NoPath THEN WriteOutcomes ELSE {"ok"}) :
           Apply("save_as", save_as(Cur, Inp("none", sp, w, NoPath, "ok", "ok")))

NextEdit ==
    \/ Construct
    \/ EnterText
    \/ KeyRelease
    \/ Find
    \/ ToggleSpellCheck
    \/ ReplaceWord

SpecEdit == InitEdit /\ [][NextEdit]_vars

\* SpecSaveAs: the entered text is saved with Save As
NextSaveAs ==
    \/ Construct
    \/ EnterText
    \/ SaveAsText

SpecSaveAs == InitEdit /\ [][NextSaveAs]_vars

(***************************************************************************)
(* SpecOpenSave: files are opened and saved again, nothing being typed     *)
(***************************************************************************)
InitOpenSave ==
    /\ NotStarted
    /\ NoRace
    /\ config \in EditorConfigs
    /\ disk \in [Paths -> {NoFile, <<>>, <<"a">>}]

\* Save, while the text is no longer than EditLen
SaveFileText ==
    /\ phase = "running"
    /\ Len(buf) <= EditLen
    /\ \E sp \in (IF filepath = NoPath THEN {NoPath} \cup Paths ELSE {NoPath}) :
       \E w \in (IF filepath # NoPath \/ sp # NoPath THEN WriteOutcomes ELSE {"ok"}) :
           Apply("save_file", save_file(Cur, Inp("none", sp, w, NoPath, "ok", "ok")))

NextOpenSave ==
    \/ Construct
    \/ Open
    \/ OpenRecent
    \/ SaveFileText

SpecOpenSave == InitOpenSave /\ [][NextOpenSave]_vars

(***************************************************************************)
(* Reading ev: what the last handler did                                   *)
(***************************************************************************)
Has(log, k, a) == \E i \in 1..Len(log) : log[i].k = k /\ log[i].a = a

HasKind(log, k) == \E i \in 1..Len(log) : log[i].k = k

LastOf(log) == log[Len(log)]

\* the answer given at the discard prompt, "none" when no prompt was shown
Answer(e) ==
    IF e.log # <<>> /\ e.log[1].k = "askyesnocancel" THEN e.log[1].a ELSE "none"

DiscardOps == {"new_file", "open_file", "_open_recent"}
OpenOps == {"open_file", "_open_recent"}
SaveOps == {"save_file", "save_as"}

\* the operation went on after _confirm_discard returned
Proceeded(e) ==
    CASE e.op = "new_file" -> HasKind(e.log, "text.delete")
      [] e.op = "open_file" -> HasKind(e.log, "askopenfilename")
      [] e.op = "_open_recent" -> HasKind(e.log, "exists")
      [] OTHER -> FALSE

\* the file was read and the handler's try block ran to its end
Opened(e) == e.op \in OpenOps /\ e.log # <<>> /\ LastOf(e.log).k = "opened"

\* the Recent-Open path was missing, or reading the file failed
OpenFailed(e) ==
    e.op \in OpenOps /\ (Has(e.log, "exists", "no") \/ Has(e.log, "read", "failed"))

Saved(e) == e.op \in SaveOps /\ e.log # <<>> /\ LastOf(e.log).k = "showinfo"

SaveFailed(e) == e.op \in SaveOps /\ Has(e.log, "write", "denied")

SaveAsCancelled(e) ==
    e.op \in SaveOps /\ e.log # <<>> /\ LastOf(e.log) = E("asksaveasfilename", "", NoPath)

(***************************************************************************)
(* Claims about the file lifecycle (Spec)                                  *)
(***************************************************************************)

\* C1: after every successful Open or Recent-Open of a path P the buffer
\* holds the content read from P, the File Reference is P, the title is
\* "PyNote - P" and the modified flag is false (state Bound-Clean).
C1_OpenLeavesBoundClean ==
    Opened(ev) =>
        LET P == LastOf(ev.log).p
        IN /\ buf = disk[P]
           /\ filepath = P
           /\ title = Title(P)
           /\ modified = FALSE

\* C2: after every successful Save or Save As the modified flag is false and
\* the File Reference is the path that was written: unchanged for Save with
\* a File Reference, the chosen path for Save As; Save without a File
\* Reference does what Save As does.
C2_SaveLeavesBoundClean ==
    [][ /\ Saved(ev') =>
            /\ modified' = FALSE
            /\ filepath' = LastOf(ev'.log).p
            /\ filepath' # NoPath
            /\ Has(ev'.log, "write", "ok")
            /\ disk'[filepath'] = TextGet(buf)
        /\ (Saved(ev') /\ ev'.op = "save_file" /\ filepath # NoPath) =>
            filepath' = filepath
        /\ (Saved(ev') /\ (ev'.op = "save_as" \/ filepath = NoPath)) =>
            /\ ev'.log[1].k = "asksaveasfilename"
            /\ filepath' = ev'.log[1].p
            /\ title' = Title(ev'.log[1].p)
        /\ (ev'.op = "save_file" /\ filepath = NoPath) =>
            \E sp \in {NoPath} \cup Paths, w \in WriteOutcomes :
                LET s == save_as(Cur, Inp("none", sp, w, NoPath, "ok", "ok"))
                IN /\ ev'.log = s.log
                   /\ <<buf', modified', filepath', title', disk'>> =
                          <<s.buf, s.modified, s.filepath, s.title, s.disk>>
      ]_vars

C2_Witness ==
    /\ ev.op = "save_file"
    /\ Saved(ev)
    /\ ev.log[1].k = "asksaveasfilename"
    /\ filepath # NoPath
    /\ modified = FALSE

\* C3: when the write of Save or Save As fails an error is reported and
\* buffer, modified flag, File Reference and title are as before; when the
\* Save As prompt is cancelled nothing changes at all.
C3_FailedSaveChangesNothing ==
    [][ /\ SaveFailed(ev') =>
            /\ LastOf(ev'.log).k = "showerror"
            /\ <<buf', modified', filepath', title'>> = <<buf, modified, filepath, title>>
        /\ SaveAsCancelled(ev') =>
            UNCHANGED <<config, disk, phase, buf, modified, filepath, title, prefs,
                        recent_menu>>
      ]_vars

C3_Witness ==
    /\ ev.op = "save_as"
    /\ SaveFailed(ev)
    /\ modified = TRUE
    /\ filepath = NoPath

\* C4 as stated: when Open or Recent-Open fails (the path is gone, or the
\* read fails) buffer, modified flag, File Reference and title are the same
\* as before the operation was invoked.
C4_FailedOpenChangesNothing ==
    [][ OpenFailed(ev') =>
            <<buf', modified', filepath', title'>> = <<buf, modified, filepath, title>>
      ]_vars

\* C4 as amended: when Open or Recent-Open fails an error is reported and the
\* buffer is the same as before the operation was invoked; modified flag,
\* File Reference and title are the same as well unless the user answered
\* Save at the discard prompt, and then they are as that Save left them.
C4_FailedOpenChangesOnlyBySave ==
    [][ OpenFailed(ev') =>
            /\ LastOf(ev'.log).k = "showerror"
            /\ buf' = buf
            /\ Answer(ev') # "yes" =>
                   <<modified', filepath', title', disk'>> = <<modified, filepath, title, disk>>
            /\ Answer(ev') = "yes" =>
                   \E sp \in {NoPath} \cup Paths, w \in WriteOutcomes :
                       LET s == save_file(Cur, Inp("yes", sp, w, NoPath, "ok", "ok"))
                       IN <<modified', filepath', title', disk'>> =
                              <<s.modified, s.filepath, s.title, s.disk>>
      ]_vars

C4_Witness ==
    /\ ev.op = "_open_recent"
    /\ Has(ev.log, "exists", "no")
    /\ Answer(ev) = "no"
    /\ modified = TRUE
    /\ buf # <<>>

\* C5: _confirm_discard shows no prompt and lets the operation go on when the
\* modified flag is false; on a modified buffer Cancel stops the operation,
\* Discard lets it go on without writing a file, and Save runs save_file
\* (Save As when there is no File Reference) and lets it go on whether the
\* save succeeded, failed or was cancelled.
C5_ConfirmDiscard ==
    [][ ev'.op \in DiscardOps =>
            /\ (Answer(ev') = "none") <=> (modified = FALSE)
            /\ Answer(ev') = "none" => Proceeded(ev')
            /\ Answer(ev') = "cancel" => ~Proceeded(ev')
            /\ Answer(ev') = "no" => Proceeded(ev') /\ ~HasKind(ev'.log, "write")
            /\ Answer(ev') = "yes" =>
                   /\ Proceeded(ev')
                   /\ ev'.log[2].k = (IF filepath = NoPath THEN "asksaveasfilename" ELSE "write")
      ]_vars

C5_Witness ==
    /\ ev.op = "new_file"
    /\ Answer(ev) = "yes"
    /\ Has(ev.log, "write", "denied")
    /\ Proceeded(ev)

\* C6: New, Open and Recent-Open answered Cancel at the discard prompt leave
\* buffer, modified flag, File Reference, title and recent-files list as they
\* were, and read and write no file.
C6_CancelChangesNothing ==
    [][ (ev'.op \in DiscardOps /\ Answer(ev') = "cancel") =>
            /\ UNCHANGED <<config, disk, buf, modified, filepath, title, recent_menu>>
            /\ Len(ev'.log) = 1
      ]_vars

C6_Witness ==
    /\ ev.op = "open_file"
    /\ Answer(ev) = "cancel"
    /\ modified = TRUE
    /\ buf # <<>>

\* C7: whenever New is not stopped by _confirm_discard the buffer is empty,
\* the File Reference absent, the title "PyNote" and the modified flag false
\* (state Untitled-Clean).
C7_NewLeavesUntitledClean ==
    (ev.op = "new_file" /\ Proceeded(ev)) =>
        /\ buf = <<>>
        /\ filepath = NoPath
        /\ title = Title(NoPath)
        /\ modified = FALSE

\* C8: constructing the application always completes, whatever the config
\* file holds: the preferences are loaded, falling back to defaults, and the
\* editor starts Untitled-Clean with an empty buffer and the title "PyNote".
C8_StartupAlwaysCompletes ==
    ev.op = "__init__" =>
        /\ phase = "running"
        /\ prefs.theme_name \in {"light", "dark"}
        /\ prefs.tab_width \in TabWidths
        /\ buf = <<>>
        /\ filepath = NoPath
        /\ title = Title(NoPath)
        /\ modified = FALSE

(***************************************************************************)
(* Claims about the Preferences Store (SpecPrefs, SpecRecent)              *)
(***************************************************************************)
LoadOps == {"load_theme_pref", "load_tab_width", "load_recent_files",
            "load_spell_check_pref"}

\* the field a load reads, the type its value should have, and its default
FieldOf(op) ==
    CASE op = "load_theme_pref" -> "theme"
      [] op = "load_tab_width" -> "tab_width"
      [] op = "load_recent_files" -> "recent_files"
      [] OTHER -> "spell_check_enabled"

TypeOf(op) ==
    CASE op = "load_theme_pref" -> "str"
      [] op = "load_tab_width" -> "num"
      [] op = "load_recent_files" -> "list"
      [] OTHER -> "bool"

DefaultOf(op) ==
    CASE op = "load_theme_pref" -> JStr("light")
      [] op = "load_tab_width" -> JNum(4)
      [] op = "load_recent_files" -> JList(<<>>)
      [] OTHER -> JBool(FALSE)

\* C9: no public operation of the Preferences Store raises, whatever the
\* config file holds; on a file that is absent, unreadable, no JSON or no
\* JSON object, and on a field of an unexpected type, a load returns its
\* default.
C9_PrefsNeverRaise ==
    /\ ev.raised = FALSE
    /\ (/\ ev.op \in LoadOps
        /\ \/ config.kind \in BadKinds
           \/ config.f[FieldOf(ev.op)].t \notin {"missing", TypeOf(ev.op)})
       => ev.val = DefaultOf(ev.op)

LastIndex(q, x) == CHOOSE i \in 1..Len(q) : q[i] = x /\ \A j \in (i + 1)..Len(q) : q[j] # x

\* C10: starting from an empty recent-files list, after any sequence of
\* add_recent_file calls the stored list has at most 5 entries and no
\* duplicate, holds the most recently added path first and the others in
\* the order of their latest addition, the oldest being dropped; A, B, C, A
\* gives [A, C, B], and a 6th distinct path drops the oldest of 5.
C10_RecentFilesOrder ==
    LET L == StoredRecent
    IN /\ Len(L) <= 5
       /\ \A i, j \in 1..Len(L) : i # j => L[i] # L[j]
       /\ \A i \in 1..Len(L) : Contains(calls, L[i])
       /\ calls # <<>> => (L # <<>> /\ L[1] = calls[Len(calls)])
       /\ \A i, j \in 1..Len(L) :
              i < j => LastIndex(calls, L[i]) > LastIndex(calls, L[j])
       /\ \A k \in 1..Len(calls) :
              ~Contains(L, calls[k]) =>
                  /\ Len(L) = 5
                  /\ \A i \in 1..Len(L) : k < LastIndex(calls, L[i])
       /\ calls = <<1, 2, 3, 1>> => L = <<1, 3, 2>>
       /\ calls = <<1, 2, 3, 4, 5, 6>> => L = <<6, 5, 4, 3, 2>>

C10_Witness ==
    /\ calls = <<1, 2, 3, 4, 5, 6>>
    /\ StoredRecent = <<6, 5, 4, 3, 2>>
    /\ ev.op = "add_recent_file"

PrefSaveOps == {"save_theme_pref", "save_tab_width", "save_spell_check_pref",
                "save_recent_files", "add_recent_file"}

\* the field a save writes
SavedField(op) ==
    CASE op = "save_theme_pref" -> "theme"
      [] op = "save_tab_width" -> "tab_width"
      [] op = "save_spell_check_pref" -> "spell_check_enabled"
      [] OTHER -> "recent_files"

\* C11: when the config file holds a JSON object, a save of one field
\* (save_theme_pref, save_tab_width, save_recent_files, add_recent_file,
\* save_spell_check_pref) leaves the file a JSON object in which every other
\* field, recognized or not, is present with the value it had.
C11_SaveKeepsOtherFields ==
    [][(config.kind = "object" /\ ev'.op \in PrefSaveOps) =>
           /\ config'.kind = "object"
           /\ \A k \in Keys \ {SavedField(ev'.op)} : config'.f[k] = config.f[k]]_vars

\* a tab width was stored in a file that holds other fields
C11_Witness ==
    /\ ev.op = "save_tab_width"
    /\ config.kind = "object"
    /\ config.f["tab_width"] = JNum(2)
    /\ config.f["extra"] = JNum(1)
    /\ config.f["theme"] = JStr("DARK")
    /\ config.f["recent_files"] = JList(<<1>>)

(***************************************************************************)
(* Claims about two instances on one config file (SpecRace)                *)
(***************************************************************************)
RaceFinished == hist.done # <<>> /\ \A i \in Instances : inst[i].pc = "idle"

SavesOf(k) == { j \in 1..Len(hist.done) : hist.done[j].field = k }

LastSaveOf(k) == CHOOSE j \in SavesOf(k) : \A m \in SavesOf(k) : m <= j

\* C12: once the interleaved saves of the two instances have all finished,
\* the file is a JSON object in which each saved field holds the value of
\* the save of that field that finished last, and each field no save wrote
\* holds the value it had at the start.
C12_LastWriterWinsPerField ==
    RaceFinished =>
        /\ config.kind = "object"
        /\ \A k \in Keys :
               config.f[k] = IF SavesOf(k) # {}
                             THEN hist.done[LastSaveOf(k)].value
                             ELSE _load_config(hist.start).f[k]

\* C13: save_tab_width(w) followed by load_tab_width() returns w for each w
\* of 2, 4, 8 (the write having reached the file); save_tab_width of any
\* other value stores nothing, so load_tab_width() returns what it returned
\* before; and load_tab_width() returns one of 2, 4, 8 whatever the config
\* file holds.
C13_TabWidthRoundTrip ==
    /\ [](/\ ~load_tab_width(config).raised
          /\ load_tab_width(config).val \in {JNum(2), JNum(4), JNum(8)})
    /\ [][ev'.op = "save_tab_width" =>
              IF ev'.val \in {JNum(2), JNum(4), JNum(8)}
              THEN ev'.log = <<E("write", "ok", NoPath)>> =>
                       load_tab_width(config') = Return(ev'.val)
              ELSE /\ config' = config
                   /\ load_tab_width(config') = load_tab_width(config)]_vars

(***************************************************************************)
(* Further claims about the shell (Spec)                                   *)
(***************************************************************************)

\* C15: in every reachable state, whatever New, Open, Recent-Open, Save,
\* Save As and edits came before (failed and cancelled ones too), the title
\* is "PyNote" exactly when the File Reference is absent and "PyNote - <path>"
\* with <path> the File Reference exactly when it is present.
C15_TitleFollowsFilepath ==
    /\ title.app = "PyNote"
    /\ (filepath = NoPath) <=> (title.sep = "")
    /\ (filepath # NoPath) <=> (title.sep = " - " /\ title.path = filepath)

\* an open failed on a document that is bound to a file
C15_Witness ==
    /\ ev.op \in OpenOps
    /\ OpenFailed(ev)
    /\ filepath # NoPath
    /\ title = [app |-> "PyNote", sep |-> " - ", path |-> filepath]

(***************************************************************************)
(* Claims about the entered text (SpecSaveAs, SpecEdit)                    *)
(***************************************************************************)

\* C14: for every buffer content X, a successful Save As to a path that held
\* no file leaves there a file holding X followed by one newline ("hello
\* world" is read back as "hello world\n"), and the modified flag is false
\* right after.
C14_SaveAsWritesTextAndNewline ==
    [][(/\ ev'.op = "save_as"
        /\ Saved(ev')
        /\ disk[ev'.log[1].p] = NoFile) =>
           /\ disk'[ev'.log[1].p] = buf \o <<"\n">>
           /\ buf' = buf
           /\ modified' = FALSE
           /\ buf = <<"h", "e", "l", "l", "o", " ", "w", "o", "r", "l", "d">> =>
                  disk'[ev'.log[1].p] = <<"h", "e", "l", "l", "o", " ", "w", "o", "r", "l", "d", "\n">>]_vars

C14_Witness ==
    /\ ev.op = "save_as"
    /\ Saved(ev)
    /\ buf = <<"h", "e", "l", "l", "o", " ", "w", "o", "r", "l", "d">>
    /\ disk[filepath] = <<"h", "e", "l", "l", "o", " ", "w", "o", "r", "l", "d", "\n">>
    /\ modified = FALSE

\* the handlers that end with the spell-check pass
SpellPassOps == {"__init__", "_update_status", "_on_toggle_spell_check", "_replace_word"}

\* C16: while spell check is disabled (the toggle is off, or the spell
\* checker is not installed), after the spell-check pass no text carries the
\* misspelled highlighting and the Misspelled-Word Set is empty; toggling
\* Spell Check off clears the highlighting and leaves the buffer as it was.
C16_DisabledSpellCheckIsEmpty ==
    [][/\ (/\ ev'.op \in SpellPassOps
           /\ phase' = "running"
           /\ ~(prefs'.spell_check_enabled /\ prefs'.spell_checker)) =>
              /\ tags'.misspelled = {}
              /\ misspelled' = {}
       /\ ev'.op = "_on_toggle_spell_check" => buf' = buf]_vars

\* C17: choosing a replacement for a misspelled word puts the replacement in
\* the place of the first occurrence of that word in the buffer, and every
\* other character of the buffer, its last line and its end included, is as
\* it was.
C17_ReplaceChangesOnlyTheWord ==
    [][ev'.op = "_replace_word" =>
          LET old == ev'.val.l[1]
              new == ev'.val.l[2]
          IN \E i \in 1..Len(buf) :
                 /\ StandsAt(buf, old, i)
                 /\ \A j \in 1..(i - 1) : ~StandsAt(buf, old, j)
                 /\ buf' = SubSeq(buf, 1, i - 1) \o new
                                \o SubSeq(buf, i + Len(old), Len(buf))]_vars

\* the indices of the text x where the query q stands, letter case set aside
Occurrences(x, q) ==
    { i \in 1..Len(x) :
        /\ i + Len(q) - 1 <= Len(x)
        /\ \A k \in 1..Len(q) : LowerChar(x[i + k - 1]) = LowerChar(q[k]) }

\* the occurrences a scan from the start takes, each search beginning at the
\* end of the match before: an occurrence is taken exactly when no taken
\* occurrence before it reaches into it
Taken(x, q) ==
    CHOOSE S \in SUBSET Occurrences(x, q) :
        \A i \in Occurrences(x, q) :
            i \in S <=> \A j \in S : j < i => j + Len(q) <= i

\* C18: for every buffer and every non-empty query, Find ends after one pass
\* from the start of the buffer, leaves the 'found' highlighting on exactly
\* the non-overlapping occurrences of the query (letter case set aside, each
\* search starting at the end of the match before), whatever was highlighted
\* before, and reports their number: 3 for "at" in "the cat sat on the mat";
\* with no occurrence it reports no matches and highlights nothing.
C18_FindHighlightsAndCounts ==
    [][ev'.op = "_find_text" =>
          LET q == ev'.val.l
              S == Taken(buf, q)
              n == Cardinality(S)
          IN /\ buf' = buf
             /\ tags'.found = UNION { i..(i + Len(q) - 1) : i \in S }
             /\ Len(ev'.log) = 1
             /\ ev'.log[1] = [k |-> "showinfo",
                              a |-> IF n > 0 THEN "found" ELSE "no_matches",
                              p |-> n]
             /\ n = 0 => tags'.found = {}
             /\ (buf = <<"t", "h", "e", " ", "c", "a", "t", " ", "s", "a", "t", " ", "o", "n", " ", "t", "h", "e", " ", "m", "a", "t">> /\ q = <<"a", "t">>) => n = 3]_vars

C18_Witness ==
    /\ ev.op = "_find_text"
    /\ ev.val.l = <<"a", "t">>
    /\ buf = <<"t", "h", "e", " ", "c", "a", "t", " ", "s", "a", "t", " ", "o", "n", " ", "t", "h", "e", " ", "m", "a", "t">>
    /\ ev.log = <<[k |-> "showinfo", a |-> "found", p |-> 3]>>
    /\ tags.found = {6, 7, 10, 11, 21, 22}

\* C19 as stated: the status computation on the buffer "one two three"
\* shows 3 words and 14 characters; in general the word count is the number
\* of whitespace-separated tokens (0 when the buffer holds whitespace only)
\* and the character count is the length of the full buffer less one
\* trailing newline.
C19_StatusCounts14 ==
    [][ev'.op = "_update_status" =>
          LET full == buf \o <<"\n">>
              tokens == { i \in 1..Len(buf) :
                            /\ buf[i] \notin {" ", "\n", "\t"}
                            /\ i = 1 \/ buf[i - 1] \in {" ", "\n", "\t"} }
          IN /\ status'.counted
             /\ status'.words = Cardinality(tokens)
             /\ status'.chars = Len(full) - 1
             /\ buf = <<"o", "n", "e", " ", "t", "w", "o", " ", "t", "h", "r", "e", "e">> =>
                    (status'.words = 3 /\ status'.chars = 14)]_vars

\* C19 as amended: the same, with 13 characters for "one two three".
C19_StatusCounts ==
    [][ev'.op = "_update_status" =>
          LET full == buf \o <<"\n">>
              tokens == { i \in 1..Len(buf) :
                            /\ buf[i] \notin {" ", "\n", "\t"}
                            /\ i = 1 \/ buf[i - 1] \in {" ", "\n", "\t"} }
          IN /\ status'.counted
             /\ status'.words = Cardinality(tokens)
             /\ status'.chars = Len(full) - 1
             /\ buf = <<"o", "n", "e", " ", "t", "w", "o", " ", "t", "h", "r", "e", "e">> =>
                    (status'.words = 3 /\ status'.chars = 13)]_vars

C19_Witness ==
    /\ ev.op = "_update_status"
    /\ buf = <<"o", "n", "e", " ", "t", "w", "o", " ", "t", "h", "r", "e", "e">>
    /\ status = [counted |-> TRUE, words |-> 3, chars |-> 13]

(***************************************************************************)
(* Claims about the palettes (SpecThemes)                                  *)
(***************************************************************************)

\* C20: get_theme(name) returns the dark palette exactly for every name that
\* is "dark" when letter case is set aside, and the light palette exactly for
\* every other name, the empty one too; what it returns is a new object each
\* time, so that changing a returned palette changes neither a palette
\* returned later nor the module's two palettes.
C20_GetThemeReturnsFreshPalette ==
    [][/\ ev'.op = "get_theme" =>
            LET ref == ev'.log[1].p
            IN /\ ref \notin 1..Len(heap)
               /\ ref \in 1..Len(heap')
               /\ \A i \in 1..Len(heap) : heap'[i] = heap[i]
               /\ heap'[ref] = IF ev'.val.s \in {"dark", "DARK"}
                               THEN DARK_THEME
                               ELSE LIGHT_THEME
       /\ heap'[1] = LIGHT_THEME
       /\ heap'[2] = DARK_THEME]_vars

\* a palette returned earlier was changed, and "DARK" then gave the dark one
C20_Witness ==
    /\ ev.op = "get_theme"
    /\ ev.val.s = "DARK"
    /\ Len(heap) = 4
    /\ heap[3] \notin {LIGHT_THEME, DARK_THEME}
    /\ heap[3].bg = "#123456"
    /\ heap[4] = DARK_THEME

(***************************************************************************)
(* Claims about whole operations of the shell (Spec)                       *)
(***************************************************************************)

\* C21: New, Open and Recent-Open clear or replace the text of a buffer whose
\* modified flag is true only after the discard prompt was shown in that
\* same operation and answered Save or Discard; the prompt comes before the
\* file dialog, the existence check and the read of the file, and the text
\* changes only where the handler clears it.
C21_PromptBeforeDiscard ==
    [][ev'.op \in DiscardOps =>
          LET log == ev'.log
          IN /\ (modified /\ HasKind(log, "text.delete")) =>
                    /\ log[1].k = "askyesnocancel"
                    /\ log[1].a \in {"yes", "no"}
             /\ \A i \in 1..Len(log) :
                    /\ log[i].k = "askyesnocancel" => i = 1
                    /\ (/\ modified
                        /\ log[i].k \in {"askopenfilename", "exists", "read",
                                         "text.delete"}) =>
                           log[1].k = "askyesnocancel" /\ i > 1
             /\ ~HasKind(log, "text.delete") => buf' = buf]_vars

\* Discard was answered on a modified buffer and a recent file took its place
C21_Witness ==
    /\ ev.op = "_open_recent"
    /\ ev.log[1] = [k |-> "askyesnocancel", a |-> "no", p |-> NoPath]
    /\ HasKind(ev.log, "text.delete")
    /\ Opened(ev)
    /\ buf # <<>>

\* C22: a file that is opened and then saved, nothing being typed in
\* between, holds after the save what was read from it, whatever it held
\* and however often it is opened and saved.
C22_OpenThenSaveKeepsFile ==
    [][(/\ Opened(ev)
        /\ ev'.op = "save_file"
        /\ Saved(ev')) =>
           /\ filepath' = filepath
           /\ disk'[filepath] = disk[filepath]]_vars

====
